---- MODULE Spec2Model ----
(***************************************************************************)
(* CityFix server: the issue lifecycle, the free-tier quota, the upvote    *)
(* ledger and the payment confirmation, as the request handlers of the     *)
(* Express application drive the three MongoDB collections users, issues   *)
(* and payments.                                                           *)
(*                                                                         *)
(* A document is a record; a collection is the sequence of its documents   *)
(* in insertion order.  An issue's _id is its position in the issues       *)
(* collection (no handler ever removes an issue document, see Delete).     *)
(* A missing request field is the empty string (falsy in JavaScript); a    *)
(* nullable field is a sequence of length 0 or 1.                          *)
(***************************************************************************)
EXTENDS Naturals, Sequences, FiniteSets, TLC

\* ------------------------------------------------------------------ bounds
MaxIssues == 1          \* issue documents in the lifecycle specification
MaxTimeline == 3        \* timeline entries per issue
MaxTime == 1            \* clock readings 0..MaxTime
MaxQuotaIssues == 4     \* issue documents in the quota specifications
NumProcs == 2           \* requests in flight in the interleaved specifications
MaxCheckouts == 1       \* checkout sessions created at the gateway
MaxListIssues == 7      \* issue documents in the listing specification
MaxUsers == 3            \* user documents in the registration specifications

\* ------------------------------------------------------- program constants
FreeLimit == 3          \* checkFreeLimit: count >= 3
PremiumAmount == 1000
BoostAmount == 100
DefaultPage == 1        \* parseInt(req.query.page) || 1
DefaultLimit == 6       \* parseInt(req.query.limit) || 6
MalformedId == 0        \* an id string that new ObjectId() rejects

\* ------------------------------------------------------------------ inputs
Emails == {"a@x.com", "c@x.com"}
Registrants == {"a@x.com"}      \* the emails that register
Payers == {"a@x.com"}           \* the emails payments are confirmed for
Sessions == {"cs_1"}
PaymentSessions == {"", "cs_1", "cs_2"}
AdminEmail == "admin@x.com"     \* process.env.ADMIN_EMAIL
\* POST /users bodies: the email alone, and bodies that also carry the fields
\* the handler sets itself.
RegisterBodies ==
    {[email |-> "a@x.com"],
     [email |-> "a@x.com", premium |-> TRUE, role |-> "admin", status |-> "blocked"],
     [email |-> AdminEmail, premium |-> TRUE, role |-> "citizen"],
     [email |-> ""]}
RoleInputs == {"citizen", "staff", "admin"}
StatusInputs == {"pending", "in-progress", "resolved", "completed", "rejected", "in progress"}
LifecycleStatuses == {"pending", "in-progress", "resolved", "completed", "rejected"}
TerminalStatuses == {"resolved", "completed", "rejected"}
AllowedEdges == {<<"pending", "in-progress">>, <<"in-progress", "resolved">>,
                 <<"in-progress", "completed">>, <<"pending", "rejected">>}
StaffBodies == {[name |-> "Bob", email |-> "bob@x.com"]}
Actors == {"bob@x.com"}
CreateBodies == {[title |-> "Pothole", description |-> "Large pothole", reporterEmail |-> e,
                  category |-> "Road", location |-> "Main St", image |-> "", priority |-> ""]
                 : e \in Emails}
Voters == Emails \cup {"d@x.com"}   \* the emails upvote requests carry
UserStatusInputs == {"active", "blocked"}
\* Bodies with a field missing: no title, no reporterEmail, no staff email.
IncompleteCreateBodies ==
    {[title |-> "", description |-> "Large pothole", reporterEmail |-> "a@x.com",
      category |-> "Road", location |-> "Main St", image |-> "", priority |-> ""],
     [title |-> "Pothole", description |-> "Large pothole", reporterEmail |-> "",
      category |-> "Road", location |-> "Main St", image |-> "", priority |-> ""]}
IncompleteStaffBodies == {[name |-> "Bob", email |-> ""]}
EditBodies == {[title |-> "Pothole (edited)", description |-> "Deep pothole",
                category |-> "Road", location |-> "Main St 12", image |-> "p.png",
                reporterEmail |-> "a@x.com"]}

\* checkouts: the checkout sessions created at the payment gateway (Stripe).
VARIABLES users, issues, payments, now, resp, procs, checkouts

vars == <<users, issues, payments, now, resp, procs, checkouts>>

\* ------------------------------------------------------------ store helpers
\* findOne / updateOne address the first document matching the filter.
FirstUser(us, email) ==
    IF \E i \in DOMAIN us : us[i].email = email
    THEN CHOOSE i \in DOMAIN us :
            /\ us[i].email = email
            /\ \A j \in 1..(i - 1) : us[j].email # email
    ELSE 0

FirstPayment(ps, email) ==
    IF \E i \in DOMAIN ps : ps[i].email = email
    THEN CHOOSE i \in DOMAIN ps :
            /\ ps[i].email = email
            /\ \A j \in 1..(i - 1) : ps[j].email # email
    ELSE 0

\* Mutant: nobody counts as premium.
UserPremiumNever(us, email) == FALSE

\* user?.premium
UserPremium(us, email) ==
    IF FirstUser(us, email) = 0 THEN FALSE ELSE us[FirstUser(us, email)].premium

\* Mutant: the account status is not looked at.
UserBlockedNever(us, email) == FALSE

\* userDoc?.status === "blocked"
UserBlocked(us, email) ==
    IF FirstUser(us, email) = 0 THEN FALSE ELSE us[FirstUser(us, email)].status = "blocked"

\* countDocuments({ reporterEmail: email })
CountIssues(iss, email) ==
    Cardinality({i \in DOMAIN iss : iss[i].reporterEmail = email})

Entry(status, message, by, time) ==
    [status |-> status, message |-> message, by |-> by, time |-> time]

Response(op, code, msg, n) == [op |-> op, code |-> code, msg |-> msg, n |-> n]

\* d.image || "" , d.priority || "normal"
OrDefault(v, dflt) == IF v = "" THEN dflt ELSE v

\* ------------------------------------------------------------- quota guard
\* Mutant: the cap compared with > instead of >=.
CheckFreeLimitCountOffByOne(count) == count > FreeLimit

CheckFreeLimitCount(count) == count >= FreeLimit

\* Mutant: the premium flag is not consulted.
checkFreeLimitIgnoresPremium(us, iss, email) ==
    CheckFreeLimitCount(CountIssues(iss, email))

\* Mutant: a request without reporterEmail is refused as well.
checkFreeLimitRefusesMissingEmail(us, iss, email) ==
    IF email = "" THEN TRUE
    ELSE IF UserPremium(us, email) THEN FALSE
    ELSE CheckFreeLimitCount(CountIssues(iss, email))

checkFreeLimit(us, iss, email) ==
    IF UserPremium(us, email) THEN FALSE
    ELSE CheckFreeLimitCount(CountIssues(iss, email))

\* ------------------------------------------------------- document builders
\* Mutant: the snapshot is not taken, reporterPremium is stored as false.
NewIssueWithoutSnapshot(d, reporterPremium, t) ==
    [title |-> d.title,
     description |-> d.description,
     reporterEmail |-> d.reporterEmail,
     reporterPremium |-> FALSE,
     category |-> d.category,
     location |-> d.location,
     image |-> OrDefault(d.image, ""),
     priority |-> OrDefault(d.priority, "normal"),
     status |-> "pending",
     assignedStaff |-> << >>,
     upvotes |-> << >>,
     createdAt |-> t,
     timeline |-> << Entry("pending", <<"Issue created">>, d.reporterEmail, t) >>]

NewIssue(d, reporterPremium, t) ==
    [title |-> d.title,
     description |-> d.description,
     reporterEmail |-> d.reporterEmail,
     reporterPremium |-> reporterPremium,
     category |-> d.category,
     location |-> d.location,
     image |-> OrDefault(d.image, ""),
     priority |-> OrDefault(d.priority, "normal"),
     status |-> "pending",
     assignedStaff |-> << >>,
     upvotes |-> << >>,
     createdAt |-> t,
     timeline |-> << Entry("pending", <<"Issue created">>, d.reporterEmail, t) >>]

\* ---------------------------------------------------- single-document writes
\* Each is one updateOne: atomic on the document it matches, a no-op when the
\* filter matches nothing.
\* Mutant: the entry is pushed at the front of the timeline.
AssignUpdatePrepends(iss, id, staff, t) ==
    IF id \in DOMAIN iss
    THEN [iss EXCEPT ![id] =
            [@ EXCEPT !.assignedStaff = << staff >>,
                      !.timeline = << Entry("assigned", <<"Assigned to ", staff.name>>, "admin", t) >> \o @]]
    ELSE iss

\* Mutant: the assignment also $set-s status to "in-progress".
AssignUpdateSetsStatus(iss, id, staff, t) ==
    IF id \in DOMAIN iss
    THEN [iss EXCEPT ![id] =
            [@ EXCEPT !.assignedStaff = << staff >>,
                      !.status = "in-progress",
                      !.timeline = Append(@, Entry("assigned", <<"Assigned to ", staff.name>>, "admin", t))]]
    ELSE iss

\* Mutant: a body without email assigns nothing.
AssignUpdateRequiresEmail(iss, id, staff, t) ==
    IF id \in DOMAIN iss /\ staff.email # ""
    THEN [iss EXCEPT ![id] =
            [@ EXCEPT !.assignedStaff = << staff >>,
                      !.timeline = Append(@, Entry("assigned", <<"Assigned to ", staff.name>>, "admin", t))]]
    ELSE iss

\* Mutant: the assignment is filtered to issues not yet in a terminal status.
AssignUpdateSkipsTerminal(iss, id, staff, t) ==
    IF id \in DOMAIN iss /\ iss[id].status \notin TerminalStatuses
    THEN [iss EXCEPT ![id] =
            [@ EXCEPT !.assignedStaff = << staff >>,
                      !.timeline = Append(@, Entry("assigned", <<"Assigned to ", staff.name>>, "admin", t))]]
    ELSE iss

AssignUpdate(iss, id, staff, t) ==
    IF id \in DOMAIN iss
    THEN [iss EXCEPT ![id] =
            [@ EXCEPT !.assignedStaff = << staff >>,
                      !.timeline = Append(@, Entry("assigned", <<"Assigned to ", staff.name>>, "admin", t))]]
    ELSE iss

\* Mutant: the update is an upsert, which inserts a document when the id
\* matches none.
StatusUpdateUpserts(iss, id, status, by, t) ==
    IF id \in DOMAIN iss
    THEN [iss EXCEPT ![id] =
            [@ EXCEPT !.status = status,
                      !.timeline = Append(@, Entry(status, <<"Status changed to ", status>>, by, t))]]
    ELSE Append(iss, [title |-> "", description |-> "", reporterEmail |-> "",
                      reporterPremium |-> FALSE, category |-> "", location |-> "",
                      image |-> "", priority |-> "", status |-> status,
                      assignedStaff |-> << >>, upvotes |-> << >>, createdAt |-> t,
                      timeline |-> << Entry(status, <<"Status changed to ", status>>, by, t) >>])

\* Mutant: the update is filtered by the allowed edges of the lifecycle.
StatusUpdateValidated(iss, id, status, by, t) ==
    IF id \in DOMAIN iss /\ <<iss[id].status, status>> \in AllowedEdges
    THEN [iss EXCEPT ![id] =
            [@ EXCEPT !.status = status,
                      !.timeline = Append(@, Entry(status, <<"Status changed to ", status>>, by, t))]]
    ELSE iss

StatusUpdate(iss, id, status, by, t) ==
    IF id \in DOMAIN iss
    THEN [iss EXCEPT ![id] =
            [@ EXCEPT !.status = status,
                      !.timeline = Append(@, Entry(status, <<"Status changed to ", status>>, by, t))]]
    ELSE iss

\* Mutant: the filter's status condition is dropped.
RejectFilterAnyStatus(doc) == TRUE

RejectFilter(doc) == doc.status = "pending"

RejectUpdate(iss, id, t) ==
    IF id \in DOMAIN iss /\ RejectFilter(iss[id])
    THEN [iss EXCEPT ![id] =
            [@ EXCEPT !.status = "rejected",
                      !.timeline = Append(@, Entry("rejected", <<"Issue rejected by admin">>, "admin", t))]]
    ELSE iss

\* Mutant: the whole body is $set, reporterEmail included, and the
\* assignment is cleared.
EditUpdateSetsBody(iss, id, u, t) ==
    IF id \in DOMAIN iss
    THEN [iss EXCEPT ![id] =
            [@ EXCEPT !.title = u.title,
                      !.description = u.description,
                      !.category = u.category,
                      !.location = u.location,
                      !.image = u.image,
                      !.reporterEmail = u.reporterEmail,
                      !.assignedStaff = << >>,
                      !.timeline = Append(@, Entry("pending", <<"Issue updated by citizen">>, u.reporterEmail, t))]]
    ELSE iss

\* Mutant: the timeline is $set to the new entry instead of $push-ed.
EditUpdateSetsTimeline(iss, id, u, t) ==
    IF id \in DOMAIN iss
    THEN [iss EXCEPT ![id] =
            [@ EXCEPT !.title = u.title,
                      !.description = u.description,
                      !.category = u.category,
                      !.location = u.location,
                      !.image = u.image,
                      !.timeline = << Entry("pending", <<"Issue updated by citizen">>, u.reporterEmail, t) >>]]
    ELSE iss

EditUpdate(iss, id, u, t) ==
    IF id \in DOMAIN iss
    THEN [iss EXCEPT ![id] =
            [@ EXCEPT !.title = u.title,
                      !.description = u.description,
                      !.category = u.category,
                      !.location = u.location,
                      !.image = u.image,
                      !.timeline = Append(@, Entry("pending", <<"Issue updated by citizen">>, u.reporterEmail, t))]]
    ELSE iss

UpvoteUpdate(iss, id, email) ==
    IF id \in DOMAIN iss
    THEN [iss EXCEPT ![id] = [@ EXCEPT !.upvotes = Append(@, email)]]
    ELSE iss

\* Mutant: the boost also puts the issue back to pending.
BoostUpdateResetsStatus(iss, id, email, t) ==
    IF id \in DOMAIN iss
    THEN [iss EXCEPT ![id] =
            [@ EXCEPT !.priority = "high",
                      !.status = "pending",
                      !.timeline = Append(@, Entry("boosted", <<"Issue boosted to HIGH priority">>, email, t))]]
    ELSE iss

BoostUpdate(iss, id, email, t) ==
    IF id \in DOMAIN iss
    THEN [iss EXCEPT ![id] =
            [@ EXCEPT !.priority = "high",
                      !.timeline = Append(@, Entry("boosted", <<"Issue boosted to HIGH priority">>, email, t))]]
    ELSE iss

\* Mutant: the premium flag is not written.
PremiumUpdateSkipped(us, email) == us

PremiumUpdate(us, email) ==
    IF FirstUser(us, email) = 0 THEN us
    ELSE [us EXCEPT ![FirstUser(us, email)] = [@ EXCEPT !.premium = TRUE]]

\* { ...user, role, status: "active", premium: false, createdAt }: the body's
\* fields first, then the handler's own, which replace the body's.
NewUserSpreadLast(user) ==
    user @@ [role |-> IF user.email = AdminEmail THEN "admin" ELSE "citizen",
             status |-> "active", premium |-> FALSE]

NewUser(user) ==
    [role |-> IF user.email = AdminEmail THEN "admin" ELSE "citizen",
     status |-> "active", premium |-> FALSE] @@ user

\* updateOne({ _id }, { $set: { role } }) on users
UserRoleUpdate(us, id, role) ==
    IF id \in DOMAIN us
    THEN [us EXCEPT ![id] = [@ EXCEPT !.role = role]]
    ELSE us

\* Mutant: the status update replaces the document's entitlement as well.
UserStatusUpdateResetsPremium(us, id, status) ==
    IF id \in DOMAIN us
    THEN [us EXCEPT ![id] = [@ EXCEPT !.status = status, !.premium = FALSE]]
    ELSE us

\* updateOne({ _id }, { $set: { status } }) on users; a user's _id is its
\* position in the collection.
UserStatusUpdate(us, id, status) ==
    IF id \in DOMAIN us
    THEN [us EXCEPT ![id] = [@ EXCEPT !.status = status]]
    ELSE us

\* Mutant: the record is a premium record whatever the body carried.
PaymentDocAlwaysPremium(email, session_id, boost, t) ==
    [email |-> email, type |-> "premium", method |-> "stripe",
     session_id |-> session_id, amount |-> PremiumAmount, currency |-> "BDT",
     status |-> "paid", date |-> t, boost_issue |-> << >>]

PaymentDoc(email, session_id, boost, t) ==
    [email |-> email,
     type |-> IF boost # << >> THEN "boost" ELSE "premium",
     method |-> "stripe",
     session_id |-> session_id,
     amount |-> IF boost # << >> THEN BoostAmount ELSE PremiumAmount,
     currency |-> "BDT",
     status |-> "paid",
     date |-> t,
     boost_issue |-> boost]

\* Mutant: every confirmation inserts a document (insertOne instead of the
\* upsert).
PaymentUpsertInserts(ps, email, session_id, boost, t) ==
    Append(ps, PaymentDoc(email, session_id, boost, t))

PaymentUpsert(ps, email, session_id, boost, t) ==
    IF FirstPayment(ps, email) = 0
    THEN Append(ps, PaymentDoc(email, session_id, boost, t))
    ELSE [ps EXCEPT ![FirstPayment(ps, email)] = PaymentDoc(email, session_id, boost, t)]

\* stripe.checkout.sessions.create({...}): what the gateway keeps of it.
CheckoutSession(email, product, unit_amount, boost_issue) ==
    [customer_email |-> email, product |-> product,
     unit_amount |-> unit_amount, boost_issue |-> boost_issue]

\* Mutant: the $match also asks for type premium.
PaidMatchPremiumOnly(doc) == doc.status = "paid" /\ doc.type = "premium"

\* { $match: { status: "paid" } }
PaidMatch(doc) == doc.status = "paid"

\* { $group: { _id: null, total: { $sum: "$amount" } } }, then
\* revenue[0]?.total || 0
RECURSIVE SumPaid(_)
SumPaid(ps) ==
    IF ps = << >> THEN 0
    ELSE (IF PaidMatch(Head(ps)) THEN Head(ps).amount ELSE 0) + SumPaid(Tail(ps))

\* countDocuments({ premium: true })
CountPremium(us) == Cardinality({k \in DOMAIN us : us[k].premium})

SummaryResponse(totalRevenue, premiumUsers) ==
    [op |-> "summary", code |-> 200, msg |-> "", n |-> totalRevenue,
     premiumUsers |-> premiumUsers]

\* ---------------------------------------------------------- initial state
NoResponse == Response("none", 0, "", 0)
Idle == [pc |-> "idle"]

Init ==
    /\ users = << >>
    /\ issues = << >>
    /\ payments = << >>
    /\ now = 0
    /\ resp = NoResponse
    /\ procs = [p \in 1..NumProcs |-> Idle]
    /\ checkouts = << >>

\* ------------------------------------------------------------------ clock
Tick ==
    /\ now < MaxTime
    /\ now' = now + 1
    /\ UNCHANGED <<users, issues, payments, resp, procs, checkouts>>

\* ------------------------------------- handlers, each run to completion
\* POST /users with the whole body
RegisterUser(user) ==
    /\ IF user.email = ""
       THEN /\ resp' = Response("register", 400, "Email Required", 0)
            /\ UNCHANGED users
       ELSE IF FirstUser(users, user.email) # 0
       THEN /\ resp' = Response("register", 200, "exists", FirstUser(users, user.email))
            /\ UNCHANGED users
       ELSE /\ users' = Append(users, NewUser(user))
            /\ resp' = Response("register", 200, "insertedId", Len(users) + 1)
    /\ UNCHANGED <<issues, payments, now, procs, checkouts>>

\* POST /users with a body that carries the email alone
Register(email) == RegisterUser([email |-> email])

Create(d) ==
    /\ IF checkFreeLimit(users, issues, d.reporterEmail)
       THEN /\ resp' = Response("create", 400, "Free user limit reached (max 3 issues)", 0)
            /\ UNCHANGED issues
       ELSE /\ issues' = Append(issues, NewIssue(d, UserPremium(users, d.reporterEmail), now))
            /\ resp' = Response("create", 200, "insertedId", Len(issues) + 1)
    /\ UNCHANGED <<users, payments, now, procs, checkouts>>

\* No try/catch: new ObjectId() throwing on a malformed id rejects the handler's
\* promise.  What follows is the framework's doing: Express 4 ignores the
\* rejection and no response is ever written (code 0, the runtime may end the
\* process); Express 5 hands it to the default error handler, which answers
\* with its own 500 page.
AssignThrowOutcomes ==
    {Response("assign", 0, "unhandled rejection", 0),
     Response("assign", 500, "Internal Server Error", 0)}

Assign(id, staff) ==
    /\ IF id = MalformedId
       THEN /\ resp' \in AssignThrowOutcomes
            /\ UNCHANGED issues
       ELSE /\ issues' = AssignUpdate(issues, id, staff, now)
            /\ resp' = Response("assign", 200, "success", 0)
    /\ UNCHANGED <<users, payments, now, procs, checkouts>>

ChangeStatus(id, status, by) ==
    /\ IF id = MalformedId
       THEN /\ resp' = Response("status", 500, "Status update failed", 0)
            /\ UNCHANGED issues
       ELSE /\ issues' = StatusUpdate(issues, id, status, by, now)
            /\ resp' = Response("status", 200, "success", 0)
    /\ UNCHANGED <<users, payments, now, procs, checkouts>>

Reject(id) ==
    /\ IF id = MalformedId
       THEN /\ resp' = Response("reject", 500, "Reject failed", 0)
            /\ UNCHANGED issues
       ELSE /\ issues' = RejectUpdate(issues, id, now)
            /\ resp' = Response("reject", 200, "success", 0)
    /\ UNCHANGED <<users, payments, now, procs, checkouts>>

\* Mutant: the status of the issue read is not looked at.
EditAllowedAnyStatus(doc) == TRUE

EditAllowed(doc) == doc.status = "pending"

Edit(id, u) ==
    /\ IF id = MalformedId
       THEN /\ resp' = Response("edit", 500, "Update failed", 0)
            /\ UNCHANGED issues
       ELSE IF id \notin DOMAIN issues
       THEN /\ resp' = Response("edit", 404, "Issue not found", 0)
            /\ UNCHANGED issues
       ELSE IF ~EditAllowed(issues[id])
       THEN /\ resp' = Response("edit", 400, "Cannot edit non-pending issue", 0)
            /\ UNCHANGED issues
       ELSE /\ issues' = EditUpdate(issues, id, u, now)
            /\ resp' = Response("edit", 200, "success", 0)
    /\ UNCHANGED <<users, payments, now, procs, checkouts>>

\* deleteOne({ _id: new Object.params.id }): Object.params is undefined, so
\* building the filter throws a TypeError and the catch answers 500.
Delete(id) ==
    /\ IF id = MalformedId
       THEN resp' = Response("delete", 500, "Delete failed", 0)
       ELSE IF id \notin DOMAIN issues
       THEN resp' = Response("delete", 404, "Not found", 0)
       ELSE IF issues[id].status # "pending"
       THEN resp' = Response("delete", 400, "Cannot delete non-pending issue", 0)
       ELSE resp' = Response("delete", 500, "Delete failed", 0)
    /\ UNCHANGED <<users, issues, payments, now, procs, checkouts>>

\* Mutant: the own-issue check is missing.
IsOwnIssueNever(doc, email) == FALSE

IsOwnIssue(doc, email) == doc.reporterEmail = email

\* Mutant: the membership check is missing.
AlreadyUpvotedNever(upvotes, email) == FALSE

AlreadyUpvoted(upvotes, email) == \E k \in DOMAIN upvotes : upvotes[k] = email

Upvote(id, email) ==
    /\ IF UserBlocked(users, email)
       THEN /\ resp' = Response("upvote", 403, "Blocked users cannot upvote", 0)
            /\ UNCHANGED issues
       ELSE IF id = MalformedId
       THEN /\ resp' = Response("upvote", 500, "Upvote failed", 0)
            /\ UNCHANGED issues
       ELSE IF id \notin DOMAIN issues
       THEN /\ resp' = Response("upvote", 404, "Not found", 0)
            /\ UNCHANGED issues
       ELSE IF IsOwnIssue(issues[id], email)
       THEN /\ resp' = Response("upvote", 400, "Cannot upvote own issue", 0)
            /\ UNCHANGED issues
       ELSE IF AlreadyUpvoted(issues[id].upvotes, email)
       THEN /\ resp' = Response("upvote", 400, "Already upvoted", 0)
            /\ UNCHANGED issues
       ELSE /\ issues' = UpvoteUpdate(issues, id, email)
            /\ resp' = Response("upvote", 200, "success", Len(issues[id].upvotes) + 1)
    /\ UNCHANGED <<users, payments, now, procs, checkouts>>

\* Mutant: only the email is required.
MissingFieldsEmailOnly(email, session_id) == email = ""

\* !email || !session_id
MissingFields(email, session_id) == email = "" \/ session_id = ""

ConfirmPayment(email, session_id, boost) ==
    /\ IF MissingFields(email, session_id)
       THEN /\ resp' = Response("payment", 400, "Missing fields", 0)
            /\ UNCHANGED <<users, issues, payments>>
       ELSE IF boost # << >> /\ boost[1] = MalformedId
       THEN /\ resp' = Response("payment", 500, "Payment update failed", 0)
            /\ UNCHANGED <<users, issues, payments>>
       ELSE /\ issues' = IF boost # << >> THEN BoostUpdate(issues, boost[1], email, now)
                         ELSE issues
            /\ users' = PremiumUpdate(users, email)
            /\ payments' = PaymentUpsert(payments, email, session_id, boost, now)
            /\ resp' = Response("payment", 200, "success", 0)
    /\ UNCHANGED <<now, procs, checkouts>>

\* POST /create-checkout-session; gatewayUp is whether the gateway call
\* returns or throws.
RequestPremiumCheckout(email, gatewayUp) ==
    /\ IF UserPremium(users, email)
       THEN /\ resp' = Response("checkout", 400, "Already premium", 0)
            /\ UNCHANGED checkouts
       ELSE IF ~gatewayUp
       THEN /\ resp' = Response("checkout", 500, "Stripe session failed", 0)
            /\ UNCHANGED checkouts
       ELSE /\ checkouts' = Append(checkouts,
                    CheckoutSession(email, "CityFix Premium Subscription",
                                    PremiumAmount * 100, << >>))
            /\ resp' = Response("checkout", 200, "url", Len(checkouts) + 1)
    /\ UNCHANGED <<users, issues, payments, now, procs>>

\* POST /issues/boost
RequestBoostCheckout(email, issueId, gatewayUp) ==
    /\ IF ~gatewayUp
       THEN /\ resp' = Response("boostCheckout", 500, "Boost failed", 0)
            /\ UNCHANGED checkouts
       ELSE /\ checkouts' = Append(checkouts,
                    CheckoutSession(email, "Boost Issue Priority",
                                    BoostAmount * 100, << issueId >>))
            /\ resp' = Response("boostCheckout", 200, "url", Len(checkouts) + 1)
    /\ UNCHANGED <<users, issues, payments, now, procs>>

\* GET /admin/payments/summary
GetRevenueSummary ==
    /\ resp' = SummaryResponse(SumPaid(payments), CountPremium(users))
    /\ UNCHANGED <<users, issues, payments, now, procs, checkouts>>

SetUserStatus(id, status) ==
    /\ IF id = MalformedId
       THEN /\ resp' = Response("userStatus", 500, "Status update failed", 0)
            /\ UNCHANGED users
       ELSE /\ users' = UserStatusUpdate(users, id, status)
            /\ resp' = Response("userStatus", 200, "success", 0)
    /\ UNCHANGED <<issues, payments, now, procs, checkouts>>

\* PATCH /admin/users/role/:id
SetUserRole(id, role) ==
    /\ IF id = MalformedId
       THEN /\ resp' = Response("userRole", 500, "Role update failed", 0)
            /\ UNCHANGED users
       ELSE /\ users' = UserRoleUpdate(users, id, role)
            /\ resp' = Response("userRole", 200, "success", 0)
    /\ UNCHANGED <<issues, payments, now, procs, checkouts>>

\* --------------------------------------------- lifecycle specification
IdInputs == 0..(MaxIssues + 1)

\* The ids an interleaved request can carry: one of a stored issue, or one that
\* no issue has (an id is not known to a caller before its issue is stored).
StoredOrAbsentIds == DOMAIN issues \cup {MaxIssues + 1}
BoostInputs == {<< >>} \cup {<< i >> : i \in 1..MaxIssues}

\* The model's bound on timeline growth.
CanGrow(id) == id \in DOMAIN issues => Len(issues[id].timeline) < MaxTimeline

Next ==
    \/ Tick
    \/ \E e \in Registrants : Register(e)
    \/ Len(issues) < MaxIssues /\ \E d \in CreateBodies : Create(d)
    \/ \E id \in IdInputs, staff \in StaffBodies : CanGrow(id) /\ Assign(id, staff)
    \/ \E id \in IdInputs, s \in StatusInputs, by \in Actors :
            CanGrow(id) /\ ChangeStatus(id, s, by)
    \/ \E id \in IdInputs : CanGrow(id) /\ Reject(id)
    \/ \E id \in IdInputs, u \in EditBodies : CanGrow(id) /\ Edit(id, u)
    \/ \E id \in IdInputs : Delete(id)
    \/ \E id \in IdInputs, e \in Emails : Upvote(id, e)
    \/ \E e \in Payers, s \in Sessions, b \in BoostInputs :
            (b # << >> => CanGrow(b[1])) /\ ConfirmPayment(e, s, b)

Spec == Init /\ [][Next]_vars

\* ------------------------------------------------- quota specification
\* Handlers run to completion, one after another.  An issue is inserted only
\* while the model's bound on the collection leaves room.
CreateFits(d) ==
    Len(issues) < MaxQuotaIssues \/ checkFreeLimit(users, issues, d.reporterEmail)

QuotaNext ==
    \/ \E e \in Registrants : Register(e)
    \/ \E d \in CreateBodies : CreateFits(d) /\ Create(d)
    \/ \E id \in 1..MaxQuotaIssues : Reject(id)
    \/ \E e \in Payers, s \in Sessions : ConfirmPayment(e, s, << >>)

SpecQuota == Init /\ [][QuotaNext]_vars

\* ------------------------------------ interleaved quota specification
\* POST /issues as its four store operations; a request in flight holds its
\* body and what it has read so far.
InFlight == Cardinality({p \in DOMAIN procs : procs[p].pc # "idle"})

\* checkFreeLimit: usersCollection.findOne({ email })
CreateFindUser(p, d) ==
    /\ procs[p].pc = "idle"
    /\ Len(issues) + InFlight < MaxQuotaIssues
    /\ procs' = [procs EXCEPT ![p] =
                    [pc |-> IF UserPremium(users, d.reporterEmail) THEN "findReporter" ELSE "count",
                     d |-> d, count |-> 0]]
    /\ UNCHANGED <<users, issues, payments, now, resp, checkouts>>

\* checkFreeLimit: issuesCollection.countDocuments({ reporterEmail: email })
CreateCount(p) ==
    /\ procs[p].pc = "count"
    /\ IF CheckFreeLimitCount(CountIssues(issues, procs[p].d.reporterEmail))
       THEN /\ resp' = Response("create", 400, "Free user limit reached (max 3 issues)", 0)
            /\ procs' = [procs EXCEPT ![p] = Idle]
       ELSE /\ procs' = [procs EXCEPT ![p] =
                            [pc |-> "findReporter", d |-> procs[p].d,
                             count |-> CountIssues(issues, procs[p].d.reporterEmail)]]
            /\ UNCHANGED resp
    /\ UNCHANGED <<users, issues, payments, now, checkouts>>

\* usersCollection.findOne({ email: d.reporterEmail }), then the document is built
CreateFindReporter(p) ==
    /\ procs[p].pc = "findReporter"
    /\ procs' = [procs EXCEPT ![p] =
                    [pc |-> "insert", d |-> procs[p].d, count |-> procs[p].count,
                     doc |-> NewIssue(procs[p].d, UserPremium(users, procs[p].d.reporterEmail), now)]]
    /\ UNCHANGED <<users, issues, payments, now, resp, checkouts>>

\* issuesCollection.insertOne(doc)
CreateInsert(p) ==
    /\ procs[p].pc = "insert"
    /\ issues' = Append(issues, procs[p].doc)
    /\ resp' = Response("create", 200, "insertedId", Len(issues) + 1)
    /\ procs' = [procs EXCEPT ![p] = Idle]
    /\ UNCHANGED <<users, payments, now, checkouts>>

QuotaRaceNext ==
    \/ \E e \in Registrants : Register(e)
    \/ \E e \in Payers, s \in Sessions : ConfirmPayment(e, s, << >>)
    \/ \E p \in DOMAIN procs, d \in CreateBodies : CreateFindUser(p, d)
    \/ \E p \in DOMAIN procs : CreateCount(p)
    \/ \E p \in DOMAIN procs : CreateFindReporter(p)
    \/ \E p \in DOMAIN procs : CreateInsert(p)

SpecQuotaRace == Init /\ [][QuotaRaceNext]_vars

\* --------------------------------- interleaved timeline specification
\* Assign and ChangeStatus build their update document, time: new Date()
\* included, when the handler runs; the store applies the write afterwards.
\* Between the two, other requests run.
PendingWrites(id) ==
    Cardinality({q \in DOMAIN procs : procs[q].pc # "idle" /\ procs[q].id = id})

\* The model's bound on timeline growth, writes in flight counted.
CanGrowInFlight(id) ==
    id \in DOMAIN issues => Len(issues[id].timeline) + PendingWrites(id) < MaxTimeline

AssignCall(p, id, staff) ==
    /\ procs[p].pc = "idle"
    /\ procs' = [procs EXCEPT ![p] =
                    [pc |-> "assignWrite", id |-> id, staff |-> staff, time |-> now]]
    /\ UNCHANGED <<users, issues, payments, now, resp, checkouts>>

AssignWrite(p) ==
    /\ procs[p].pc = "assignWrite"
    /\ issues' = AssignUpdate(issues, procs[p].id, procs[p].staff, procs[p].time)
    /\ resp' = Response("assign", 200, "success", 0)
    /\ procs' = [procs EXCEPT ![p] = Idle]
    /\ UNCHANGED <<users, payments, now, checkouts>>

StatusCall(p, id, status, by) ==
    /\ procs[p].pc = "idle"
    /\ procs' = [procs EXCEPT ![p] =
                    [pc |-> "statusWrite", id |-> id, status |-> status, by |-> by, time |-> now]]
    /\ UNCHANGED <<users, issues, payments, now, resp, checkouts>>

StatusWrite(p) ==
    /\ procs[p].pc = "statusWrite"
    /\ issues' = StatusUpdate(issues, procs[p].id, procs[p].status, procs[p].by, procs[p].time)
    /\ resp' = Response("status", 200, "success", 0)
    /\ procs' = [procs EXCEPT ![p] = Idle]
    /\ UNCHANGED <<users, payments, now, checkouts>>

TimelineRaceNext ==
    \/ Tick
    \/ Len(issues) < MaxIssues /\ \E d \in CreateBodies : Create(d)
    \/ \E p \in DOMAIN procs, id \in StoredOrAbsentIds, staff \in StaffBodies :
            CanGrowInFlight(id) /\ AssignCall(p, id, staff)
    \/ \E p \in DOMAIN procs : AssignWrite(p)
    \/ \E p \in DOMAIN procs, id \in StoredOrAbsentIds, s \in StatusInputs, by \in Actors :
            CanGrowInFlight(id) /\ StatusCall(p, id, s, by)
    \/ \E p \in DOMAIN procs : StatusWrite(p)

SpecTimelineRace == Init /\ [][TimelineRaceNext]_vars

\* ------------------------------------- interleaved upvote specification
\* PATCH /issues/upvote/:id as its three store operations.
UpvoteFindUser(p, id, email) ==
    /\ procs[p].pc = "idle"
    /\ IF UserBlocked(users, email)
       THEN /\ resp' = Response("upvote", 403, "Blocked users cannot upvote", 0)
            /\ UNCHANGED procs
       ELSE /\ procs' = [procs EXCEPT ![p] =
                            [pc |-> "findIssue", id |-> id, email |-> email, count |-> 0]]
            /\ UNCHANGED resp
    /\ UNCHANGED <<users, issues, payments, now, checkouts>>

UpvoteFindIssue(p) ==
    /\ procs[p].pc = "findIssue"
    /\ IF procs[p].id = MalformedId
       THEN /\ resp' = Response("upvote", 500, "Upvote failed", 0)
            /\ procs' = [procs EXCEPT ![p] = Idle]
       ELSE IF procs[p].id \notin DOMAIN issues
       THEN /\ resp' = Response("upvote", 404, "Not found", 0)
            /\ procs' = [procs EXCEPT ![p] = Idle]
       ELSE IF IsOwnIssue(issues[procs[p].id], procs[p].email)
       THEN /\ resp' = Response("upvote", 400, "Cannot upvote own issue", 0)
            /\ procs' = [procs EXCEPT ![p] = Idle]
       ELSE IF AlreadyUpvoted(issues[procs[p].id].upvotes, procs[p].email)
       THEN /\ resp' = Response("upvote", 400, "Already upvoted", 0)
            /\ procs' = [procs EXCEPT ![p] = Idle]
       ELSE /\ procs' = [procs EXCEPT ![p] =
                            [pc |-> "push", id |-> procs[p].id, email |-> procs[p].email,
                             count |-> Len(issues[procs[p].id].upvotes)]]
            /\ UNCHANGED resp
    /\ UNCHANGED <<users, issues, payments, now, checkouts>>

UpvotePush(p) ==
    /\ procs[p].pc = "push"
    /\ issues' = UpvoteUpdate(issues, procs[p].id, procs[p].email)
    /\ resp' = Response("upvote", 200, "success", procs[p].count + 1)
    /\ procs' = [procs EXCEPT ![p] = Idle]
    /\ UNCHANGED <<users, payments, now, checkouts>>

VoteRaceNext ==
    \/ Len(issues) < MaxIssues /\ \E d \in CreateBodies : Create(d)
    \/ \E p \in DOMAIN procs, id \in StoredOrAbsentIds \cup {MalformedId}, e \in Voters :
            UpvoteFindUser(p, id, e)
    \/ \E p \in DOMAIN procs : UpvoteFindIssue(p)
    \/ \E p \in DOMAIN procs : UpvotePush(p)

SpecVoteRace == Init /\ [][VoteRaceNext]_vars

\* -------------------------------------------------- vote specification
\* Upvote run to completion, by registered and unregistered voters, while an
\* administrator blocks and unblocks accounts.
UserIdInputs == 0..(Cardinality(Emails) + 1)

VoteNext ==
    \/ \E e \in Emails : Register(e)
    \/ \E id \in UserIdInputs, s \in UserStatusInputs : SetUserStatus(id, s)
    \/ Len(issues) < MaxIssues /\ \E d \in CreateBodies : Create(d)
    \/ \E id \in IdInputs, e \in Voters : Upvote(id, e)

SpecVote == Init /\ [][VoteNext]_vars

\* ---------------------------------- interleaved payment specification
\* POST /payment/success as its store operations.  The payments collection
\* has no unique index on email, so the upsert is a match followed by an
\* insert or an update: two upserts that both match nothing both insert.
BoostsInFlight(id) ==
    Cardinality({q \in DOMAIN procs : procs[q].pc = "boost" /\ procs[q].boost = << id >>})

\* The model's bound on timeline growth, boosts in flight counted.
CanBoostInFlight(b) ==
    (b # << >> /\ b[1] \in DOMAIN issues) =>
        Len(issues[b[1]].timeline) + BoostsInFlight(b[1]) < MaxTimeline

PayCall(p, email, session_id, boost) ==
    /\ procs[p].pc = "idle"
    /\ IF MissingFields(email, session_id)
       THEN /\ resp' = Response("payment", 400, "Missing fields", 0)
            /\ UNCHANGED procs
       ELSE IF boost # << >> /\ boost[1] = MalformedId
       THEN /\ resp' = Response("payment", 500, "Payment update failed", 0)
            /\ UNCHANGED procs
       ELSE /\ procs' = [procs EXCEPT ![p] =
                            [pc |-> IF boost # << >> THEN "boost" ELSE "premium",
                             email |-> email, session_id |-> session_id,
                             boost |-> boost, matched |-> 0]]
            /\ UNCHANGED resp
    /\ UNCHANGED <<users, issues, payments, now, checkouts>>

\* issuesCollection.updateOne({ _id }, { $set priority, $push timeline })
PayBoost(p) ==
    /\ procs[p].pc = "boost"
    /\ issues' = BoostUpdate(issues, procs[p].boost[1], procs[p].email, now)
    /\ procs' = [procs EXCEPT ![p] = [@ EXCEPT !.pc = "premium"]]
    /\ UNCHANGED <<users, payments, now, resp, checkouts>>

\* usersCollection.updateOne({ email }, { $set: { premium: true } })
PayPremium(p) ==
    /\ procs[p].pc = "premium"
    /\ users' = PremiumUpdate(users, procs[p].email)
    /\ procs' = [procs EXCEPT ![p] = [@ EXCEPT !.pc = "upsertMatch"]]
    /\ UNCHANGED <<issues, payments, now, resp, checkouts>>

\* paymentsCollection.updateOne({ email }, ..., { upsert: true }): the match
PayUpsertMatch(p) ==
    /\ procs[p].pc = "upsertMatch"
    /\ procs' = [procs EXCEPT ![p] =
                    [@ EXCEPT !.pc = "upsertWrite",
                              !.matched = FirstPayment(payments, procs[p].email)]]
    /\ UNCHANGED <<users, issues, payments, now, resp, checkouts>>

\* ... and the write: $set on the matched document, an insert without one
PayUpsertWrite(p) ==
    /\ procs[p].pc = "upsertWrite"
    /\ payments' =
          IF procs[p].matched = 0
          THEN Append(payments, PaymentDoc(procs[p].email, procs[p].session_id,
                                           procs[p].boost, now))
          ELSE [payments EXCEPT ![procs[p].matched] =
                    PaymentDoc(procs[p].email, procs[p].session_id, procs[p].boost, now)]
    /\ resp' = Response("payment", 200, "success", 0)
    /\ procs' = [procs EXCEPT ![p] = Idle]
    /\ UNCHANGED <<users, issues, now, checkouts>>

PaymentRaceNext ==
    \/ \E e \in Registrants : Register(e)
    \/ Len(issues) < MaxIssues /\ \E d \in CreateBodies : Create(d)
    \/ \E p \in DOMAIN procs, e \in Payers, s \in PaymentSessions,
           b \in {<< >>} \cup {<< i >> : i \in StoredOrAbsentIds \cup {MalformedId}} :
            CanBoostInFlight(b) /\ PayCall(p, e, s, b)
    \/ \E p \in DOMAIN procs : PayBoost(p)
    \/ \E p \in DOMAIN procs : PayPremium(p)
    \/ \E p \in DOMAIN procs : PayUpsertMatch(p)
    \/ \E p \in DOMAIN procs : PayUpsertWrite(p)

SpecPaymentRace == Init /\ [][PaymentRaceNext]_vars

\* ------------------------------------------------ billing specification
\* Checkout requests, confirmations and the revenue summary, run to
\* completion.  A session is created at the gateway only while the model's
\* bound leaves room.
CheckoutFits == Len(checkouts) < MaxCheckouts

BillingNext ==
    \/ \E e \in Emails : Register(e)
    \/ Len(issues) < MaxIssues /\ \E d \in CreateBodies : Create(d)
    \/ \E e \in Emails, up \in BOOLEAN :
            (CheckoutFits \/ ~up \/ UserPremium(users, e)) /\ RequestPremiumCheckout(e, up)
    \/ \E e \in Emails, id \in IdInputs, up \in BOOLEAN :
            (CheckoutFits \/ ~up) /\ RequestBoostCheckout(e, id, up)
    \/ \E e \in Emails, s \in Sessions, b \in BoostInputs :
            (b # << >> => CanGrow(b[1])) /\ ConfirmPayment(e, s, b)
    \/ GetRevenueSummary

SpecBilling == Init /\ [][BillingNext]_vars

\* ------------------------------------------------- input specification
\* Create, Assign and ConfirmPayment with complete and incomplete bodies and
\* with stored, absent and malformed ids.
InputEmails == {"", "a@x.com"}
InputSessions == {"", "cs_1"}
InputBoosts == {<< >>} \cup {<< i >> : i \in 0..(MaxIssues + 1)}

InputNext ==
    \/ Tick
    \/ \E e \in Registrants : Register(e)
    \/ Len(issues) < MaxIssues /\
            \E d \in CreateBodies \cup IncompleteCreateBodies : Create(d)
    \/ \E id \in IdInputs, staff \in StaffBodies \cup IncompleteStaffBodies :
            CanGrow(id) /\ Assign(id, staff)
    \/ \E e \in InputEmails, s \in InputSessions, b \in InputBoosts :
            (b # << >> => CanGrow(b[1])) /\ ConfirmPayment(e, s, b)

SpecInput == Init /\ [][InputNext]_vars

\* ------------------------------------------------- issue specification
\* The handlers that write one issue document, run to completion.
IssueNext ==
    \/ Tick
    \/ Len(issues) < MaxIssues /\ \E d \in CreateBodies : Create(d)
    \/ \E id \in IdInputs, staff \in StaffBodies : CanGrow(id) /\ Assign(id, staff)
    \/ \E id \in IdInputs, s \in StatusInputs, by \in Actors :
            CanGrow(id) /\ ChangeStatus(id, s, by)
    \/ \E id \in IdInputs : CanGrow(id) /\ Reject(id)
    \/ \E id \in IdInputs, u \in EditBodies : CanGrow(id) /\ Edit(id, u)
    \/ \E id \in IdInputs : Delete(id)

SpecIssue == Init /\ [][IssueNext]_vars

\* ----------------------------------------------- payment specification
\* POST /payment/success run to completion, replayed at will, with every kind
\* of body: a missing session_id, two session references, no boost_issue, a
\* malformed one, one of a stored issue and one no issue has.
PaymentBoostInputs == {<< >>} \cup {<< i >> : i \in IdInputs}

PaymentNext ==
    \/ Tick
    \/ \E e \in Registrants : Register(e)
    \/ Len(issues) < MaxIssues /\ \E d \in CreateBodies : Create(d)
    \/ \E e \in Emails, s \in PaymentSessions, b \in PaymentBoostInputs :
            (b # << >> => CanGrow(b[1])) /\ ConfirmPayment(e, s, b)

SpecPayment == Init /\ [][PaymentNext]_vars

\* ------------------------------- interleaved registration specification
\* POST /users as its two store operations, while an administrator sets
\* roles and statuses and payments are confirmed.
RegistrationsInFlight == Cardinality({p \in DOMAIN procs : procs[p].pc = "insert"})

\* usersCollection.findOne({ email: user.email })
RegisterFind(p, user) ==
    /\ procs[p].pc = "idle"
    /\ Len(users) + RegistrationsInFlight < MaxUsers
    /\ IF user.email = ""
       THEN /\ resp' = Response("register", 400, "Email Required", 0)
            /\ UNCHANGED procs
       ELSE IF FirstUser(users, user.email) # 0
       THEN /\ resp' = Response("register", 200, "exists", FirstUser(users, user.email))
            /\ UNCHANGED procs
       ELSE /\ procs' = [procs EXCEPT ![p] = [pc |-> "insert", doc |-> NewUser(user)]]
            /\ UNCHANGED resp
    /\ UNCHANGED <<users, issues, payments, now, checkouts>>

\* usersCollection.insertOne(doc)
RegisterInsert(p) ==
    /\ procs[p].pc = "insert"
    /\ users' = Append(users, procs[p].doc)
    /\ resp' = Response("register", 200, "insertedId", Len(users) + 1)
    /\ procs' = [procs EXCEPT ![p] = Idle]
    /\ UNCHANGED <<issues, payments, now, checkouts>>

RegisterRaceNext ==
    \/ \E p \in DOMAIN procs, u \in RegisterBodies : RegisterFind(p, u)
    \/ \E p \in DOMAIN procs : RegisterInsert(p)
    \/ \E id \in 0..MaxUsers, s \in UserStatusInputs : SetUserStatus(id, s)
    \/ \E e \in Payers, s \in Sessions : ConfirmPayment(e, s, << >>)

SpecRegisterRace == Init /\ [][RegisterRaceNext]_vars

\* ------------------------------------- interleaved edit specification
\* PUT /issues/:id as its two store operations, findOne and updateOne, while
\* Assign, ChangeStatus and Reject, one updateOne each, act on the same issue.
EditsInFlight(id) ==
    Cardinality({p \in DOMAIN procs : procs[p].pc = "editWrite" /\ procs[p].id = id})

\* The model's bound on timeline growth, edits in flight counted.
CanGrowWithEdits(id) ==
    id \in DOMAIN issues => Len(issues[id].timeline) + EditsInFlight(id) < MaxTimeline

\* issuesCollection.findOne({ _id }) and the two checks on what it returned
EditFind(p, id, u) ==
    /\ procs[p].pc = "idle"
    /\ IF id = MalformedId
       THEN /\ resp' = Response("edit", 500, "Update failed", 0)
            /\ UNCHANGED procs
       ELSE IF id \notin DOMAIN issues
       THEN /\ resp' = Response("edit", 404, "Issue not found", 0)
            /\ UNCHANGED procs
       ELSE IF ~EditAllowed(issues[id])
       THEN /\ resp' = Response("edit", 400, "Cannot edit non-pending issue", 0)
            /\ UNCHANGED procs
       ELSE /\ procs' = [procs EXCEPT ![p] = [pc |-> "editWrite", id |-> id, u |-> u]]
            /\ UNCHANGED resp
    /\ UNCHANGED <<users, issues, payments, now, checkouts>>

\* issuesCollection.updateOne({ _id }, { $set, $push })
EditWrite(p) ==
    /\ procs[p].pc = "editWrite"
    /\ issues' = EditUpdate(issues, procs[p].id, procs[p].u, now)
    /\ resp' = Response("edit", 200, "success", 0)
    /\ procs' = [procs EXCEPT ![p] = Idle]
    /\ UNCHANGED <<users, payments, now, checkouts>>

EditRaceNext ==
    \/ Tick
    \/ Len(issues) < MaxIssues /\ \E d \in CreateBodies : Create(d)
    \/ \E p \in DOMAIN procs, id \in IdInputs, u \in EditBodies :
            CanGrowWithEdits(id) /\ EditFind(p, id, u)
    \/ \E p \in DOMAIN procs : EditWrite(p)
    \/ \E id \in StoredOrAbsentIds, staff \in StaffBodies :
            CanGrowWithEdits(id) /\ Assign(id, staff)
    \/ \E id \in StoredOrAbsentIds, s \in LifecycleStatuses, by \in Actors :
            CanGrowWithEdits(id) /\ ChangeStatus(id, s, by)
    \/ \E id \in StoredOrAbsentIds : CanGrowWithEdits(id) /\ Reject(id)

SpecEditRace == Init /\ [][EditRaceNext]_vars

\* ------------------------------------------------ account specification
\* Every operation of the server run to completion, with the bodies that
\* try to set a user's role, status and premium flag at registration.
AccountVoter == "c@x.com"

AccountNext ==
    \/ \E u \in RegisterBodies : RegisterUser(u)
    \/ \E id \in 1..MaxUsers, s \in UserStatusInputs : SetUserStatus(id, s)
    \/ \E id \in 0..MaxUsers, r \in RoleInputs : SetUserRole(id, r)
    \/ \E e \in Payers, s \in Sessions : ConfirmPayment(e, s, << >>)
    \/ \E e \in Payers, up \in BOOLEAN :
            (CheckoutFits \/ ~up \/ UserPremium(users, e)) /\ RequestPremiumCheckout(e, up)
    \/ \E e \in Payers, id \in DOMAIN issues :
            CheckoutFits /\ RequestBoostCheckout(e, id, TRUE)
    \/ Len(issues) < MaxIssues /\
            \E d \in CreateBodies : d.reporterEmail \in Payers /\ Create(d)
    \/ \E id \in DOMAIN issues, staff \in StaffBodies : CanGrow(id) /\ Assign(id, staff)
    \/ \E id \in DOMAIN issues : CanGrow(id) /\ ChangeStatus(id, "resolved", AdminEmail)
    \/ \E id \in DOMAIN issues : CanGrow(id) /\ Reject(id)
    \/ \E id \in DOMAIN issues, u \in EditBodies : CanGrow(id) /\ Edit(id, u)
    \/ \E id \in DOMAIN issues : Delete(id)
    \/ \E id \in DOMAIN issues : Upvote(id, AccountVoter)

SpecAccount == Init /\ [][AccountNext]_vars

\* ------------------------------------------------ listing specification
\* GET /issues.  Query values and the texts they are matched against are
\* sequences of characters, so that parseInt and $regex act on what they are
\* given.  Numerals are unsigned and the pattern alphabet is letters, "."
\* and "(".
DigitValue == [c \in {"0", "1", "2", "3", "4", "5", "6", "7", "8", "9"} |->
                 CASE c = "0" -> 0 [] c = "1" -> 1 [] c = "2" -> 2 [] c = "3" -> 3
                   [] c = "4" -> 4 [] c = "5" -> 5 [] c = "6" -> 6 [] c = "7" -> 7
                   [] c = "8" -> 8 [] c = "9" -> 9]

\* The longest prefix of s made of digits.
RECURSIVE LeadingDigits(_)
LeadingDigits(s) ==
    IF s = << >> \/ s[1] \notin DOMAIN DigitValue THEN << >>
    ELSE << s[1] >> \o LeadingDigits(Tail(s))

RECURSIVE DigitsValue(_)
DigitsValue(s) ==
    IF s = << >> THEN 0
    ELSE DigitsValue(SubSeq(s, 1, Len(s) - 1)) * 10 + DigitValue[s[Len(s)]]

\* parseInt(s): the number its leading digits spell, << >> for NaN.
ParseInt(s) ==
    IF LeadingDigits(s) = << >> THEN << >> ELSE << DigitsValue(LeadingDigits(s)) >>

\* parseInt(s) || dflt: NaN and 0 are falsy.
ParseIntOr(s, dflt) ==
    IF ParseInt(s) = << >> \/ ParseInt(s)[1] = 0 THEN dflt ELSE ParseInt(s)[1]

\* String.toLowerCase on the letters the texts use.
Lower(c) ==
    CASE c = "P" -> "p" [] c = "M" -> "m" [] c = "R" -> "r" [] c = "L" -> "l"
      [] c = "W" -> "w" [] c = "A" -> "a" [] c = "E" -> "e" [] OTHER -> c

\* { $regex: s, $options: "i" }: "." stands for any character, an unclosed
\* "(" makes the pattern invalid, a letter stands for itself in either case.
RegexValid(s) == \A k \in DOMAIN s : s[k] # "("

RegexFinds(text, s) ==
    \E off \in 0..Len(text) :
        /\ off + Len(s) <= Len(text)
        /\ \A k \in DOMAIN s : s[k] = "." \/ Lower(s[k]) = Lower(text[off + k])

\* q: category, status and priority when given, $or of the three $regex
\* when search is given
ListFilter(doc, q) ==
    /\ q.category # << >> => doc.category = q.category
    /\ q.status # "" => doc.status = q.status
    /\ q.priority # "" => doc.priority = q.priority
    /\ q.search # << >> =>
          \/ RegexFinds(doc.title, q.search)
          \/ RegexFinds(doc.location, q.search)
          \/ RegexFinds(doc.category, q.search)

\* .sort({ createdAt: -1 }) of the documents with the ids in S
RECURSIVE SortByCreatedAtDesc(_, _)
SortByCreatedAtDesc(iss, S) ==
    IF S = {} THEN << >>
    ELSE LET first == CHOOSE i \in S : \A j \in S :
                          \/ iss[j].createdAt < iss[i].createdAt
                          \/ iss[j].createdAt = iss[i].createdAt /\ i <= j
         IN << first >> \o SortByCreatedAtDesc(iss, S \ {first})

\* Mutant: the first page is skipped as well.
ListSkipFromPage(page, limit) == page * limit

\* const skip = (page - 1) * limit
ListSkip(page, limit) == (page - 1) * limit

\* find(q).skip(skip).limit(limit).sort({ createdAt: -1 }): the ids of the
\* documents returned, in the order returned.
ListFind(iss, q, skip, limit) ==
    LET sorted == SortByCreatedAtDesc(iss, {i \in DOMAIN iss : ListFilter(iss[i], q)})
        last == IF skip + limit < Len(sorted) THEN skip + limit ELSE Len(sorted)
    IN SubSeq(sorted, skip + 1, last)

\* res.json({ total, issues: list }), with the query that was answered
ListResponse(code, msg, total, list, q) ==
    [op |-> "list", code |-> code, msg |-> msg, n |-> total, issues |-> list, query |-> q]

ListIssues(q) ==
    /\ IF q.search # << >> /\ ~RegexValid(q.search)
       THEN resp' = ListResponse(500, "Query failed", 0, << >>, q)
       ELSE resp' = ListResponse(200, "", Cardinality({i \in DOMAIN issues : ListFilter(issues[i], q)}),
                                 ListFind(issues, q,
                                          ListSkip(ParseIntOr(q.page, DefaultPage),
                                                   ParseIntOr(q.limit, DefaultLimit)),
                                          ParseIntOr(q.limit, DefaultLimit)),
                                 q)
    /\ UNCHANGED <<users, issues, payments, now, procs, checkouts>>

\* The stores listed: issues created one clock reading apart, each either as
\* Create left it or boosted and resolved since.
ListBodies ==
    [plain |-> [title |-> <<"P", "i", "t">>, description |-> "Large pothole",
                reporterEmail |-> "a@x.com", category |-> <<"R", "o", "a", "d">>,
                location |-> <<"M", "a", "i", "n">>, image |-> "", priority |-> ""],
     worked |-> [title |-> <<"L", "e", "a", "k">>, description |-> "Burst pipe",
                 reporterEmail |-> "c@x.com", category |-> <<"W", "a", "t", "e", "r">>,
                 location |-> <<"P", "a", "r", "k">>, image |-> "", priority |-> ""]]

ListDoc(kind, t) ==
    IF kind = "plain" THEN NewIssue(ListBodies.plain, FALSE, t)
    ELSE StatusUpdate(BoostUpdate(<< NewIssue(ListBodies.worked, FALSE, t) >>, 1, "c@x.com", t),
                      1, "resolved", "bob@x.com", t)[1]

ListStores ==
    UNION {{[k \in 1..n |-> ListDoc(kinds[k], k)] : kinds \in [1..n -> {"plain", "worked"}]}
           : n \in 0..MaxListIssues}

ListQueries ==
    [page : {<< >>, <<"0">>, <<"2">>, <<"2", "x">>},
     limit : {<< >>, <<"x">>, <<"0">>, <<"2">>},
     category : {<< >>, <<"R", "o", "a", "d">>},
     status : {"", "resolved"},
     priority : {"", "high"},
     search : {<< >>, <<"p">>, <<"r", "o">>, <<"a", ".">>, <<"(">>}]

ListInit ==
    /\ issues \in ListStores
    /\ users = << >>
    /\ payments = << >>
    /\ now = Len(issues)
    /\ resp = NoResponse
    /\ procs = [p \in 1..NumProcs |-> Idle]
    /\ checkouts = << >>

\* One request per store drawn: the answer depends on the store and the
\* query alone.
ListNext == resp = NoResponse /\ \E q \in ListQueries : ListIssues(q)

SpecList == ListInit /\ [][ListNext]_vars

\* ======================================================== lifecycle claims
IsPrefix(s, t) == Len(s) <= Len(t) /\ \A k \in 1..Len(s) : t[k] = s[k]

Last(s) == s[Len(s)]

\* C1 (as stated): once an issue's status is resolved, completed or rejected,
\* every later ChangeStatus call on it fails (HTTP 400) and the status never
\* changes again.
C1_TerminalIsFinal ==
    [][\A i \in DOMAIN issues :
          issues[i].status \in TerminalStatuses =>
             /\ issues'[i].status = issues[i].status
             /\ \A s \in StatusInputs, by \in Actors :
                   ChangeStatus(i, s, by) => resp'.code = 400]_vars

\* C1 (amended): once an issue's status is resolved, completed or rejected it
\* changes again only through a ChangeStatus call, which answers success
\* (HTTP 200) and sets the status to whatever was requested; no other
\* operation changes a terminal status.
C1_TerminalChangesOnlyByChangeStatus ==
    [][\A i \in DOMAIN issues :
          (issues[i].status \in TerminalStatuses /\ issues'[i].status # issues[i].status) =>
             /\ resp' = Response("status", 200, "success", 0)
             /\ \E s \in StatusInputs, by \in Actors :
                   /\ issues' = StatusUpdate(issues, i, s, by, now)
                   /\ issues'[i].status = s]_vars

\* C1 witness: an issue that was resolved and has since been put back to pending.
C1_Witness ==
    \E i \in DOMAIN issues :
        /\ issues[i].status = "pending"
        /\ \E k \in DOMAIN issues[i].timeline : issues[i].timeline[k].status = "resolved"

\* C2 (as stated): a ChangeStatus request changes the status only along an
\* allowed edge; a request that is not an allowed edge, or asks for a status
\* outside the five lifecycle statuses, fails with HTTP 400 and leaves the
\* status as it was.
C2_OnlyAllowedEdges ==
    [][\A i \in DOMAIN issues, s \in StatusInputs, by \in Actors :
          ChangeStatus(i, s, by) =>
             IF <<issues[i].status, s>> \in AllowedEdges
             THEN issues'[i].status = s
             ELSE resp'.code = 400 /\ issues'[i].status = issues[i].status]_vars

\* C2 (amended): every ChangeStatus request on an existing issue answers
\* success (HTTP 200), sets the status to the requested value whatever the
\* current status is and whether or not the value is a lifecycle status, and
\* appends one timeline entry carrying that value and the actor; with a
\* malformed id it answers 500 and changes no issue.
C2_ChangeStatusIsUnconditional ==
    [][/\ \A i \in DOMAIN issues, s \in StatusInputs, by \in Actors :
             ChangeStatus(i, s, by) =>
                /\ resp'.code = 200
                /\ issues'[i].status = s
                /\ Len(issues'[i].timeline) = Len(issues[i].timeline) + 1
                /\ Last(issues'[i].timeline).status = s
                /\ Last(issues'[i].timeline).by = by
       /\ \A s \in StatusInputs, by \in Actors :
             ChangeStatus(MalformedId, s, by) => resp'.code = 500 /\ issues' = issues]_vars

\* C2 witness: an issue taken from pending straight to resolved, and one whose
\* status is no lifecycle status at all.
C2_Witness ==
    \E i \in DOMAIN issues :
        /\ Len(issues[i].timeline) = 3
        /\ issues[i].timeline[2].status = "resolved"
        /\ issues[i].status \notin LifecycleStatuses

\* C3: every stored issue has a non-empty timeline whose first entry is the
\* one Create seeded: status pending, message "Issue created", by the reporter.
C3_TimelineStartsPending ==
    \A i \in DOMAIN issues :
        /\ Len(issues[i].timeline) >= 1
        /\ issues[i].timeline[1].status = "pending"
        /\ issues[i].timeline[1].message = <<"Issue created">>
        /\ issues[i].timeline[1].by = issues[i].reporterEmail

\* C3 witness: an issue that has been edited and boosted after its creation.
C3_Witness ==
    \E i \in DOMAIN issues :
        /\ Len(issues[i].timeline) = 3
        /\ issues[i].timeline[2].message = <<"Issue updated by citizen">>
        /\ issues[i].timeline[3].status = "boosted"

\* C4: the timeline is append-only: across every step, each issue is still
\* stored and its timeline before the step is a prefix of its timeline after.
C4_TimelineAppendOnly ==
    [][\A i \in DOMAIN issues :
          /\ i \in DOMAIN issues'
          /\ IsPrefix(issues[i].timeline, issues'[i].timeline)]_vars

\* C4 witness: a timeline grown by an assignment and then a status change.
C4_Witness ==
    \E i \in DOMAIN issues :
        /\ Len(issues[i].timeline) = 3
        /\ issues[i].timeline[2].status = "assigned"
        /\ issues[i].timeline[3].status = "rejected"

\* C7: no issue's upvotes holds the issue's own reporterEmail.
C7_NoSelfVote ==
    \A i \in DOMAIN issues :
        \A k \in DOMAIN issues[i].upvotes : issues[i].upvotes[k] # issues[i].reporterEmail

\* C7 witness: an edited issue that holds a vote, after its reporter's own
\* attempt was refused.
C7_Witness ==
    \E i \in DOMAIN issues :
        /\ Len(issues[i].upvotes) = 1
        /\ issues[i].title = "Pothole (edited)"
        /\ resp = Response("upvote", 400, "Cannot upvote own issue", 0)

\* ============================================================ quota claims
QuotaExceeded == Response("create", 400, "Free user limit reached (max 3 issues)", 0)

\* C8: for a reporter without the premium flag, with Create calls run one
\* after another, a Create made while the reporter has fewer than 3 stored
\* issues succeeds and inserts one issue of that reporter; a Create made while
\* the reporter has 3 or more stored issues answers the quota error and
\* inserts nothing.
C8_QuotaBoundary ==
    [][\A d \in CreateBodies :
          (Create(d) /\ ~UserPremium(users, d.reporterEmail)) =>
             IF CountIssues(issues, d.reporterEmail) < 3
             THEN /\ resp'.code = 200
                  /\ Len(issues') = Len(issues) + 1
                  /\ Last(issues').reporterEmail = d.reporterEmail
             ELSE /\ resp' = QuotaExceeded
                  /\ issues' = issues]_vars

\* C8 witness: a non-premium reporter holds exactly 3 issues, one of them no
\* longer pending, and the Create that followed was refused.
C8_Witness ==
    /\ resp = QuotaExceeded
    /\ \E e \in Emails :
          /\ ~UserPremium(users, e)
          /\ CountIssues(issues, e) = 3
          /\ \E i \in DOMAIN issues :
                issues[i].reporterEmail = e /\ issues[i].status = "rejected"

C10_StaleCountLetsCapBeExceeded ==
    /\ \A p \in DOMAIN procs :
          procs[p].pc \in {"findReporter", "insert"} => procs[p].count < 3
    /\ \A e \in Emails :
          ~UserPremium(users, e) => CountIssues(issues, e) <= 3 + NumProcs - 1

\* C10 witness: a reporter without the premium flag holds more than 3 issues.
C10_Witness ==
    \E e \in Emails :
        /\ ~UserPremium(users, e)
        /\ CountIssues(issues, e) > 3
        /\ \A i \in DOMAIN issues : ~issues[i].reporterPremium

\* ====================================================== interleaving claims
\* C5: the timestamps of every issue's timeline entries are non-decreasing in
\* sequence order, also when timeline-appending requests on one issue overlap.
C5_TimelineTimesNonDecreasing ==
    \A i \in DOMAIN issues :
        \A k \in 1..(Len(issues[i].timeline) - 1) :
            issues[i].timeline[k].time <= issues[i].timeline[k + 1].time

\* C6: no issue's upvotes holds the same voter twice, also when two Upvote
\* requests of one voter on one issue overlap.
C6_NoDuplicateVoter ==
    \A i \in DOMAIN issues :
        \A k, l \in DOMAIN issues[i].upvotes :
            k # l => issues[i].upvotes[k] # issues[i].upvotes[l]

\* ========================================================== payment claims
\* The payment documents of one user that carry one session reference.
RecordsOf(ps, email, session_id) ==
    {k \in DOMAIN ps : ps[k].email = email /\ ps[k].session_id = session_id}

\* The boosted entries a timeline holds.
BoostedEntries(timeline) ==
    {k \in DOMAIN timeline : timeline[k].status = "boosted"}

\* C11: every successful ConfirmPayment, a first one or a replay with the same
\* user and session reference, leaves exactly one payment document of that
\* user with that session reference; no user ever has two payment documents.
C11_ReplayLeavesOneRecord ==
    [][/\ \A e \in Emails, s \in PaymentSessions, b \in PaymentBoostInputs :
             (ConfirmPayment(e, s, b) /\ resp'.code = 200) =>
                Cardinality(RecordsOf(payments', e, s)) = 1
       /\ \A e \in Emails :
             Cardinality({k \in DOMAIN payments' : payments'[k].email = e}) <= 1]_vars

\* C11 witness: a confirmation made at time 0 (its boost is on the timeline)
\* was confirmed again at time 1, and the user has the one payment document
\* of the later call.
C11_Witness ==
    /\ resp = Response("payment", 200, "success", 0)
    /\ \E e \in Emails, i \in DOMAIN issues :
          /\ Cardinality(RecordsOf(payments, e, "cs_1")) = 1
          /\ payments[FirstPayment(payments, e)].date = 1
          /\ payments[FirstPayment(payments, e)].boost_issue = << i >>
          /\ \E k \in DOMAIN issues[i].timeline :
                issues[i].timeline[k] =
                    Entry("boosted", <<"Issue boosted to HIGH priority">>, e, 0)

\* C12 (as stated): a ConfirmPayment that replays the stored confirmation (same
\* user, same session reference, same boosted issue) leaves the issue's
\* priority high and adds no timeline entry, so that the timeline holds exactly
\* one boosted entry for that confirmation.
C12_BoostAppliedOnce ==
    [][\A e \in Emails, s \in PaymentSessions, i \in DOMAIN issues :
          (/\ ConfirmPayment(e, s, << i >>)
           /\ resp'.code = 200
           /\ RecordsOf(payments, e, s) # {}
           /\ payments[FirstPayment(payments, e)].boost_issue = << i >>) =>
             /\ issues'[i].priority = "high"
             /\ issues'[i].timeline = issues[i].timeline
             /\ Cardinality(BoostedEntries(issues'[i].timeline)) = 1]_vars

\* C23: a ConfirmPayment whose body lacks email or session_id answers HTTP 400
\* "Missing fields" and writes nothing: users, issues and payments stay as
\* they were.
C23_MissingFieldsChangeNothing ==
    [][\A e \in InputEmails, s \in InputSessions, b \in InputBoosts :
          (ConfirmPayment(e, s, b) /\ (e = "" \/ s = "")) =>
             /\ resp' = Response("payment", 400, "Missing fields", 0)
             /\ users' = users
             /\ issues' = issues
             /\ payments' = payments]_vars

\* C23 witness: after a refused confirmation the registered user is not
\* premium, the stored issue is unboosted and no payment document exists.
C23_Witness ==
    /\ resp = Response("payment", 400, "Missing fields", 0)
    /\ payments = << >>
    /\ \E k \in DOMAIN users : ~users[k].premium
    /\ \E i \in DOMAIN issues :
          issues[i].priority = "normal" /\ Len(issues[i].timeline) = 1

\* C24: every successful ConfirmPayment for an email that has a user document
\* leaves that user's premium flag true, with or without a boost_issue.
C24_ConfirmSetsPremium ==
    [][\A e \in Emails, s \in PaymentSessions, b \in PaymentBoostInputs :
          (/\ ConfirmPayment(e, s, b)
           /\ resp'.code = 200
           /\ \E k \in DOMAIN users : users[k].email = e) =>
             \A k \in DOMAIN users' : users'[k].email = e => users'[k].premium]_vars

\* C24 witness: a user is premium after a confirmation that carried a boost.
C24_Witness ==
    /\ resp = Response("payment", 200, "success", 0)
    /\ \E k \in DOMAIN users :
          /\ users[k].premium
          /\ FirstPayment(payments, users[k].email) # 0
          /\ payments[FirstPayment(payments, users[k].email)].type = "boost"

\* C25: a ConfirmPayment carrying the id of a stored issue sets that issue's
\* priority to high and appends one boosted entry by the payer; status,
\* assignedStaff, upvotes and every other field stay as they were, whatever
\* the issue's status is.
C25_BoostLeavesLifecycleAlone ==
    [][\A e \in Payers, s \in Sessions, i \in DOMAIN issues :
          ConfirmPayment(e, s, << i >>) =>
             /\ resp'.code = 200
             /\ issues'[i] = [issues[i] EXCEPT
                                 !.priority = "high",
                                 !.timeline = Append(@, Entry("boosted",
                                       <<"Issue boosted to HIGH priority">>, e, now))]
             /\ issues'[i].status = issues[i].status
             /\ issues'[i].assignedStaff = issues[i].assignedStaff
             /\ issues'[i].upvotes = issues[i].upvotes]_vars

\* C25 witness: a resolved issue holding a vote was boosted and is still
\* resolved.
C25_Witness ==
    \E i \in DOMAIN issues :
        /\ issues[i].status = "resolved"
        /\ issues[i].priority = "high"
        /\ Len(issues[i].upvotes) = 1
        /\ Len(issues[i].timeline) = 3
        /\ issues[i].timeline[2].status = "resolved"
        /\ issues[i].timeline[3].status = "boosted"

\* C28: the reporterPremium of an inserted issue is the premium flag the
\* reporter's user document has when Create runs, false when there is no such
\* document; no step changes the reporterPremium of a stored issue.
C28_ReporterPremiumIsSnapshot ==
    [][/\ \A i \in DOMAIN issues :
             /\ i \in DOMAIN issues'
             /\ issues'[i].reporterPremium = issues[i].reporterPremium
       /\ \A d \in CreateBodies :
             (Create(d) /\ resp'.code = 200) =>
                Last(issues').reporterPremium =
                   (\E k \in DOMAIN users :
                       users[k].email = d.reporterEmail /\ users[k].premium)]_vars

\* C28 witness: the reporter became premium after the issue was created; the
\* issue, assigned and boosted since, still carries reporterPremium false.
C28_Witness ==
    \E i \in DOMAIN issues, k \in DOMAIN users :
        /\ users[k].email = issues[i].reporterEmail
        /\ users[k].premium
        /\ ~issues[i].reporterPremium
        /\ Len(issues[i].timeline) = 3
        /\ issues[i].timeline[2].status = "assigned"

\* C29: every call is answered: the response of the last call carries an
\* HTTP status, whatever the input was.
C29_EveryCallIsAnswered ==
    resp = NoResponse \/ resp.code \in {200, 400, 403, 404, 500}

\* C26: a premium checkout request for a user whose premium flag is true
\* answers HTTP 400 "Already premium" and creates no session at the gateway.
C26_PremiumCheckoutRefused ==
    [][\A e \in Emails, up \in BOOLEAN :
          (/\ RequestPremiumCheckout(e, up)
           /\ \E k \in DOMAIN users : users[k].email = e /\ users[k].premium) =>
             /\ resp' = Response("checkout", 400, "Already premium", 0)
             /\ checkouts' = checkouts]_vars

\* C26 witness: a user bought premium through one checkout session, and the
\* next checkout request was refused: the gateway holds the one session.
C26_Witness ==
    /\ resp = Response("checkout", 400, "Already premium", 0)
    /\ Len(checkouts) = 1
    /\ \E k \in DOMAIN users :
          users[k].premium /\ checkouts[1].customer_email = users[k].email

\* The amounts of the payment documents at the positions in S, added up.
RECURSIVE AmountOver(_)
AmountOver(S) ==
    IF S = {} THEN 0
    ELSE LET k == CHOOSE j \in S : TRUE
         IN  payments[k].amount + AmountOver(S \ {k})

C30_OneRecordPerUserLastWins ==
    [][/\ \A e \in Payers :
             Cardinality({k \in DOMAIN payments' : payments'[k].email = e}) <= 1
       /\ \A p \in DOMAIN procs :
             PayUpsertWrite(p) =>
                \A k \in DOMAIN payments' :
                   payments'[k].email = procs[p].email =>
                      /\ payments'[k].session_id = procs[p].session_id
                      /\ payments'[k].type =
                            (IF procs[p].boost # << >> THEN "boost" ELSE "premium")
                      /\ payments'[k].amount =
                            (IF procs[p].boost # << >> THEN 100 ELSE 1000)]_vars

\* ============================================================ issue claims
AssignedEntry(staff, t) == Entry("assigned", <<"Assigned to ", staff.name>>, "admin", t)

\* C13 (as stated): a successful Assign on a pending or in-progress issue sets
\* assignedStaff to the staff reference, leaves the issue with status
\* in-progress and appends exactly one entry {assigned, "Assigned to <name>",
\* by admin}; each successful Assign or ChangeStatus grows the timeline by
\* exactly one entry.
C13_AssignSetsInProgress ==
    [][/\ \A i \in DOMAIN issues, staff \in StaffBodies :
             (Assign(i, staff) /\ issues[i].status \in {"pending", "in-progress"}) =>
                /\ resp'.code = 200
                /\ issues'[i].assignedStaff = << staff >>
                /\ issues'[i].status = "in-progress"
                /\ issues'[i].timeline = Append(issues[i].timeline, AssignedEntry(staff, now))
       /\ \A i \in DOMAIN issues, staff \in StaffBodies, s \in StatusInputs, by \in Actors :
             (Assign(i, staff) \/ ChangeStatus(i, s, by)) =>
                Len(issues'[i].timeline) = Len(issues[i].timeline) + 1]_vars

\* C13 (amended): a successful Assign on a pending or in-progress issue sets
\* assignedStaff to the staff reference, leaves the status as it was (a
\* pending issue stays pending) and every other field too, and appends
\* exactly one entry {assigned, "Assigned to <name>", by admin}; each
\* successful Assign or ChangeStatus grows the timeline by exactly one entry.
C13_AssignKeepsStatus ==
    [][/\ \A i \in DOMAIN issues, staff \in StaffBodies :
             (Assign(i, staff) /\ issues[i].status \in {"pending", "in-progress"}) =>
                /\ resp'.code = 200
                /\ issues'[i] = [issues[i] EXCEPT
                                    !.assignedStaff = << staff >>,
                                    !.timeline = Append(@, AssignedEntry(staff, now))]
                /\ issues'[i].status = issues[i].status
       /\ \A i \in DOMAIN issues, staff \in StaffBodies, s \in StatusInputs, by \in Actors :
             (Assign(i, staff) \/ ChangeStatus(i, s, by)) =>
                Len(issues'[i].timeline) = Len(issues[i].timeline) + 1]_vars

\* C13 witness: create, then assign, then resolve: a timeline of three entries
\* on an issue assigned to Bob while it was pending.
C13_Witness ==
    \E i \in DOMAIN issues :
        /\ Len(issues[i].timeline) = 3
        /\ issues[i].timeline[1].status = "pending"
        /\ issues[i].timeline[2].status = "assigned"
        /\ issues[i].timeline[3].status = "resolved"
        /\ issues[i].status = "resolved"
        /\ issues[i].assignedStaff = << [name |-> "Bob", email |-> "bob@x.com"] >>

\* C14 (as stated): Assign on an issue whose status is resolved, completed or
\* rejected is refused (HTTP 400) and leaves assignedStaff, status and
\* timeline as they were.
C14_AssignOnTerminalRefused ==
    [][\A i \in DOMAIN issues, staff \in StaffBodies :
          (Assign(i, staff) /\ issues[i].status \in TerminalStatuses) =>
             /\ resp'.code = 400
             /\ issues'[i] = issues[i]]_vars

\* C14 (amended): Assign on an issue whose status is resolved, completed or
\* rejected is not refused: it answers success, replaces assignedStaff, appends
\* the assigned entry and leaves the terminal status in place.
C14_AssignOnTerminalSucceeds ==
    [][\A i \in DOMAIN issues, staff \in StaffBodies :
          (Assign(i, staff) /\ issues[i].status \in TerminalStatuses) =>
             /\ resp' = Response("assign", 200, "success", 0)
             /\ issues'[i].assignedStaff = << staff >>
             /\ issues'[i].status = issues[i].status
             /\ issues'[i].timeline = Append(issues[i].timeline, AssignedEntry(staff, now))]_vars

\* C14 witness: an issue rejected first and assigned afterwards.
C14_Witness ==
    /\ resp = Response("assign", 200, "success", 0)
    /\ \E i \in DOMAIN issues :
          /\ issues[i].status = "rejected"
          /\ Len(issues[i].timeline) = 3
          /\ issues[i].timeline[2].status = "rejected"
          /\ issues[i].timeline[3].status = "assigned"

\* C15: an Edit of a stored issue succeeds exactly when the issue's status is
\* pending: it then rewrites title, description, category, location and image
\* and appends one timeline entry, the status staying pending; in every other
\* status it answers HTTP 400 and leaves the whole document, timeline
\* included, unchanged.
C15_EditOnlyWhilePending ==
    [][\A i \in DOMAIN issues, u \in EditBodies :
          Edit(i, u) =>
             IF issues[i].status = "pending"
             THEN /\ resp'.code = 200
                  /\ issues'[i].title = u.title
                  /\ issues'[i].description = u.description
                  /\ issues'[i].category = u.category
                  /\ issues'[i].location = u.location
                  /\ issues'[i].image = u.image
                  /\ issues'[i].status = "pending"
                  /\ Len(issues'[i].timeline) = Len(issues[i].timeline) + 1
             ELSE /\ resp' = Response("edit", 400, "Cannot edit non-pending issue", 0)
                  /\ issues' = issues]_vars

\* C15 witness: an issue moved to in-progress and the Edit that followed
\* refused: the title is the one it was created with and the timeline holds
\* the creation and the status change only.
C15_Witness ==
    /\ resp = Response("edit", 400, "Cannot edit non-pending issue", 0)
    /\ \E i \in DOMAIN issues :
          /\ issues[i].status = "in-progress"
          /\ issues[i].title = "Pothole"
          /\ Len(issues[i].timeline) = 2

\* C16: a Delete of a pending issue succeeds and removes the issue from the
\* store; a Delete of an issue in any other status answers HTTP 400 and leaves
\* the store unchanged.
C16_DeletePendingRemoves ==
    [][\A i \in DOMAIN issues :
          Delete(i) =>
             IF issues[i].status = "pending"
             THEN /\ resp'.code = 200
                  /\ Len(issues') = Len(issues) - 1
             ELSE /\ resp'.code = 400
                  /\ issues' = issues]_vars

\* C17: a Reject changes the addressed issue, to status rejected with one
\* rejected entry appended, only when that issue's status is pending when the
\* write is applied; addressed to an issue in any other status, to no stored
\* issue or with a malformed id it changes nothing in the store; users and
\* payments it never touches.
C17_RejectWritesOnlyPending ==
    [][\A id \in IdInputs :
          Reject(id) =>
             /\ users' = users /\ payments' = payments
             /\ IF id \in DOMAIN issues /\ issues[id].status = "pending"
                THEN issues' = [issues EXCEPT ![id] =
                        [@ EXCEPT !.status = "rejected",
                                  !.timeline = Append(@, Entry("rejected",
                                        <<"Issue rejected by admin">>, "admin", now))]]
                ELSE issues' = issues]_vars

\* C17 witness: a Reject answered on an issue that is resolved and whose
\* timeline holds no rejected entry.
C17_Witness ==
    /\ resp = Response("reject", 200, "success", 0)
    /\ \E i \in DOMAIN issues :
          /\ issues[i].status = "resolved"
          /\ \A k \in DOMAIN issues[i].timeline : issues[i].timeline[k].status # "rejected"

\* ============================================================= vote claims
\* The voter is among the entries of upvotes.
HoldsVote(upvotes, e) == e \in {upvotes[k] : k \in DOMAIN upvotes}

\* A stored account of that email has status blocked.
HasBlockedAccount(e) ==
    \E k \in DOMAIN users : users[k].email = e /\ users[k].status = "blocked"

\* C18 (as stated): an Upvote by the issue's own reporter fails with HTTP 403
\* and an Upvote by a voter already in upvotes fails with HTTP 409; in both
\* cases upvotes is unchanged.
C18_SelfVote403Duplicate409 ==
    [][\A i \in DOMAIN issues, e \in Voters :
          Upvote(i, e) =>
             /\ IsOwnIssue(issues[i], e) =>
                   resp'.code = 403 /\ issues'[i].upvotes = issues[i].upvotes
             /\ AlreadyUpvoted(issues[i].upvotes, e) =>
                   resp'.code = 409 /\ issues'[i].upvotes = issues[i].upvotes]_vars

\* C18 (amended): an Upvote by the issue's own reporter fails with HTTP 400
\* "Cannot upvote own issue" and an Upvote by a voter already in upvotes fails
\* with HTTP 400 "Already upvoted", a blocked caller being answered 403 before
\* either; in all these cases upvotes is unchanged.
C18_SelfVoteAndDuplicateAnswer400 ==
    [][\A i \in DOMAIN issues, e \in Voters :
          Upvote(i, e) =>
             /\ (issues[i].reporterEmail = e \/ HoldsVote(issues[i].upvotes, e)) =>
                   /\ issues' = issues
                   /\ resp'.code = IF HasBlockedAccount(e) THEN 403 ELSE 400
             /\ (issues[i].reporterEmail = e /\ ~HasBlockedAccount(e)) =>
                   resp' = Response("upvote", 400, "Cannot upvote own issue", 0)
             /\ (/\ HoldsVote(issues[i].upvotes, e)
                 /\ issues[i].reporterEmail # e
                 /\ ~HasBlockedAccount(e)) =>
                   resp' = Response("upvote", 400, "Already upvoted", 0)]_vars

\* C18 witness: the second attempt of c@x.com on an issue of a@x.com was
\* refused and the issue holds the one vote.
C18_Witness ==
    /\ resp = Response("upvote", 400, "Already upvoted", 0)
    /\ \E i \in DOMAIN issues :
          /\ issues[i].reporterEmail = "a@x.com"
          /\ issues[i].upvotes = << "c@x.com" >>

\* C19: the Upvote that completes its write has added its voter and answers a
\* newCount equal to the number of entries the issue's upvotes holds right
\* after that write, whatever other Upvote requests on the issue overlap it.
C19_NewCountIsCountAfterWrite ==
    [][\A p \in DOMAIN procs :
          UpvotePush(p) =>
             /\ AlreadyUpvoted(issues'[procs[p].id].upvotes, procs[p].email)
             /\ resp'.n = Len(issues'[procs[p].id].upvotes)]_vars

\* C20: an Upvote by a voter whose account status is blocked when the call is
\* made is answered 403 and changes no issue: the voter is added to no
\* upvotes.
C20_BlockedNeverVotes ==
    [][\A id \in IdInputs, e \in Voters :
          (Upvote(id, e) /\ HasBlockedAccount(e)) =>
             /\ resp' = Response("upvote", 403, "Blocked users cannot upvote", 0)
             /\ issues' = issues]_vars

\* C20 witness: a blocked voter was refused on an issue that is not the
\* voter's own and does not hold the voter's vote.
C20_Witness ==
    /\ resp = Response("upvote", 403, "Blocked users cannot upvote", 0)
    /\ \E e \in Voters, i \in DOMAIN issues :
          /\ UserBlocked(users, e)
          /\ ~IsOwnIssue(issues[i], e)
          /\ ~AlreadyUpvoted(issues[i].upvotes, e)

\* ============================================================ input claims
\* C21 (as stated): a Create whose body lacks title or reporterEmail answers
\* HTTP 400 and inserts no issue.
C21_IncompleteCreateRefused ==
    [][\A d \in IncompleteCreateBodies :
          Create(d) => resp'.code = 400 /\ issues' = issues]_vars

\* C21 (amended): a Create whose body lacks title or reporterEmail is not
\* refused for that: unless the quota refuses it (3 stored issues with that
\* reporterEmail value, no premium flag) it answers success and inserts one
\* issue carrying the body's title and reporterEmail as they came, the
\* missing one absent, the seeded timeline entry being by that reporterEmail.
C21_IncompleteCreateInserts ==
    [][\A d \in IncompleteCreateBodies :
          (Create(d) /\ CountIssues(issues, d.reporterEmail) < 3) =>
             /\ resp' = Response("create", 200, "insertedId", Len(issues) + 1)
             /\ Len(issues') = Len(issues) + 1
             /\ Last(issues').title = d.title
             /\ Last(issues').reporterEmail = d.reporterEmail
             /\ Last(issues').status = "pending"
             /\ Last(issues').timeline =
                    << Entry("pending", <<"Issue created">>, d.reporterEmail, now) >>]_vars

\* C21 witness: a stored issue without reporterEmail, assigned since.
C21_Witness ==
    \E i \in DOMAIN issues :
        /\ issues[i].reporterEmail = ""
        /\ issues[i].title = "Pothole"
        /\ issues[i].assignedStaff # << >>

\* C22 (as stated): an Assign to an id no issue has, and an Assign whose staff
\* body lacks email, report failure (HTTP 404, HTTP 400) and modify no issue.
C22_AssignValidates ==
    [][\A id \in 1..(MaxIssues + 1), staff \in StaffBodies \cup IncompleteStaffBodies :
          Assign(id, staff) =>
             /\ id \notin DOMAIN issues => resp'.code = 404 /\ issues' = issues
             /\ staff.email = "" => resp'.code = 400 /\ issues' = issues]_vars

\* C22 (amended): an Assign to a well-formed id no issue has modifies no
\* issue but reports success; an Assign whose staff body lacks email reports
\* success too and, on a stored issue, stores the body as assignedStaff and
\* appends the assigned entry.
C22_AssignNeverRefuses ==
    [][\A id \in 1..(MaxIssues + 1), staff \in StaffBodies \cup IncompleteStaffBodies :
          Assign(id, staff) =>
             /\ resp' = Response("assign", 200, "success", 0)
             /\ id \notin DOMAIN issues => issues' = issues
             /\ (id \in DOMAIN issues /\ staff.email = "") =>
                   /\ issues'[id].assignedStaff = << staff >>
                   /\ issues'[id].timeline =
                          Append(issues[id].timeline, AssignedEntry(staff, now))]_vars

\* C22 witness: an issue assigned to a staff body without email.
C22_Witness ==
    /\ resp = Response("assign", 200, "success", 0)
    /\ \E i \in DOMAIN issues :
          /\ issues[i].assignedStaff = << [name |-> "Bob", email |-> ""] >>
          /\ Last(issues[i].timeline).status = "assigned"

\* ========================================================= account claims

\* C31 (as stated by the claim): the users store holds at most one user
\* document per email, also when two registrations of one email overlap.
C31_OneUserPerEmail ==
    \A i, j \in DOMAIN users : users[i].email = users[j].email => i = j

\* C33: a stored user's premium flag changes only in a step that answers a
\* ConfirmPayment with success, and then only to TRUE; a user document that
\* is inserted starts with premium FALSE; no user document is removed.
C33_PremiumOnlyByPayment ==
    [][/\ Len(users') >= Len(users)
       /\ \A k \in DOMAIN users' :
            IF k \in DOMAIN users
            THEN users'[k].premium # users[k].premium =>
                    /\ users'[k].premium = TRUE
                    /\ resp'.op = "payment" /\ resp'.code = 200
            ELSE users'[k].premium = FALSE]_vars

\* A premium user whose status and role an administrator has since set, and
\* whose issue has been through the issue operations.
C33_Witness ==
    /\ \E k \in DOMAIN users :
            users[k].premium /\ users[k].status = "blocked" /\ users[k].role = "staff"
    /\ Len(checkouts) = 1
    /\ \E i \in DOMAIN issues : Len(issues[i].timeline) = MaxTimeline
    /\ resp.op = "userStatus"

\* C38: a user document that a step inserts has premium FALSE and status
\* active, and its role is admin when its email is the configured admin
\* email and citizen otherwise, whatever the body carried.
C38_RegisterGrantsNothing ==
    [][Len(users') = Len(users) + 1 =>
            LET doc == users'[Len(users')] IN
            /\ doc.premium = FALSE
            /\ doc.status = "active"
            /\ doc.role = (IF doc.email = AdminEmail THEN "admin" ELSE "citizen")]_vars

\* The registration whose body carried premium true and role citizen under
\* the admin email has just been answered.
C38_Witness ==
    /\ resp.op = "register" /\ resp.msg = "insertedId"
    /\ users[resp.n].email = AdminEmail
    /\ users[resp.n].role = "admin"
    /\ users[resp.n].premium = FALSE

\* C35: after a successful ConfirmPayment the payer's payment record has
\* status paid and the session reference of the call; it is a boost record of
\* amount 100 linked to the issue id when the call carried a boost_issue,
\* and a premium record of amount 1000 with no linked issue otherwise.
C35_PaymentRecordFields ==
    [][\A e \in Emails, s \in PaymentSessions, b \in PaymentBoostInputs :
          (ConfirmPayment(e, s, b) /\ resp'.code = 200) =>
             \E k \in DOMAIN payments' :
                /\ payments'[k].email = e
                /\ \A j \in 1..(k - 1) : payments'[j].email # e
                /\ payments'[k].status = "paid"
                /\ payments'[k].session_id = s
                /\ IF b # << >>
                   THEN /\ payments'[k].type = "boost"
                        /\ payments'[k].amount = BoostAmount
                        /\ payments'[k].boost_issue = b
                   ELSE /\ payments'[k].type = "premium"
                        /\ payments'[k].amount = PremiumAmount
                        /\ payments'[k].boost_issue = << >>]_vars

\* A boost record under the second session reference stands next to a
\* premium record of another payer.
C35_Witness ==
    /\ resp = Response("payment", 200, "success", 0)
    /\ \E k \in DOMAIN payments :
          /\ payments[k].type = "boost" /\ payments[k].amount = BoostAmount
          /\ payments[k].session_id = "cs_2" /\ payments[k].boost_issue # << >>
    /\ \E k \in DOMAIN payments :
          /\ payments[k].type = "premium" /\ payments[k].amount = PremiumAmount
          /\ payments[k].boost_issue = << >>

\* C34: a successful Edit leaves the edited issue's status, priority,
\* assignedStaff, upvotes, reporterEmail, reporterPremium and createdAt as
\* they were, keeps the timeline it found and appends exactly one entry to
\* it, and leaves every other issue unchanged; title, description, category,
\* location and image are the only other fields that may differ.
C34_EditFrame ==
    [][\A i \in DOMAIN issues, u \in EditBodies :
          (Edit(i, u) /\ resp'.code = 200) =>
             /\ DOMAIN issues' = DOMAIN issues
             /\ \A j \in DOMAIN issues \ {i} : issues'[j] = issues[j]
             /\ DOMAIN issues'[i] = DOMAIN issues[i]
             /\ \A f \in DOMAIN issues[i] \
                        {"title", "description", "category", "location", "image", "timeline"} :
                    issues'[i][f] = issues[i][f]
             /\ Len(issues'[i].timeline) = Len(issues[i].timeline) + 1
             /\ SubSeq(issues'[i].timeline, 1, Len(issues[i].timeline)) = issues[i].timeline]_vars

\* An issue reported by another email than the one the Edit body carried,
\* assigned and upvoted before the Edit that has just succeeded.
C34_Witness ==
    /\ resp = Response("edit", 200, "success", 0)
    /\ \E i \in DOMAIN issues :
          /\ issues[i].title = "Pothole (edited)"
          /\ issues[i].reporterEmail = "c@x.com"
          /\ issues[i].assignedStaff # << >>
          /\ issues[i].upvotes # << >>
          /\ issues[i].status = "pending"
          /\ Len(issues[i].timeline) = 3

\* C39: the number of stored issues grows only in a step that answers a
\* Create with success, and then by one, the issues already stored keeping
\* their ids; it shrinks only in a step that answers a Delete with success;
\* an Assign, ChangeStatus, Reject, Edit, Upvote or ConfirmPayment addressed
\* to an id that no stored issue has leaves the store of issues as it was.
C39_IssuesGrowOnlyByCreate ==
    [][/\ Len(issues') > Len(issues) =>
            /\ Len(issues') = Len(issues) + 1
            /\ resp' = Response("create", 200, "insertedId", Len(issues) + 1)
            /\ \A i \in DOMAIN issues : issues'[i] = issues[i]
       /\ Len(issues') < Len(issues) => (resp'.op = "delete" /\ resp'.code = 200)
       /\ \A id \in IdInputs \ DOMAIN issues :
            (\/ \E staff \in StaffBodies : Assign(id, staff)
             \/ \E s \in StatusInputs, by \in Actors : ChangeStatus(id, s, by)
             \/ Reject(id)
             \/ \E u \in EditBodies : Edit(id, u)
             \/ \E e \in Emails : Upvote(id, e)
             \/ \E e \in Payers, s \in Sessions : ConfirmPayment(e, s, << id >>))
            => issues' = issues]_vars

\* A ChangeStatus addressed to an id that no issue has was answered with
\* success while the one stored issue is as it was created.
C39_Witness ==
    /\ resp = Response("status", 200, "success", 0)
    /\ Len(issues) = 1
    /\ issues[1].status = "pending"
    /\ Len(issues[1].timeline) = 1

\* ============================================================ edit claims
\* The status label of the latest entry of a timeline that carries a status
\* of the issue: assigned and boosted entries are passed over.
RECURSIVE LatestLifecycleStatus(_)
LatestLifecycleStatus(timeline) ==
    IF timeline = << >> THEN ""
    ELSE IF timeline[Len(timeline)].status \notin {"assigned", "boosted"}
    THEN timeline[Len(timeline)].status
    ELSE LatestLifecycleStatus(SubSeq(timeline, 1, Len(timeline) - 1))

\* C36 (as stated by the claim): every stored issue's status is the status
\* label of the latest lifecycle entry of its timeline, also while Edit,
\* ChangeStatus and Reject calls on the issue interleave.
C36_StatusIsLatestLifecycleEntry ==
    \A i \in DOMAIN issues : issues[i].status = LatestLifecycleStatus(issues[i].timeline)

\* C37 (as stated by the claim): whenever an Edit's updateOne writes its
\* fields and its timeline entry, the stored status of the issue is pending.
C37_EditWritesOnlyWhilePending ==
    [][\A p \in DOMAIN procs :
          EditWrite(p) => issues[procs[p].id].status = "pending"]_vars

\* ========================================================= listing claims
\* How many of the issues with ids in S were created after issue i.
NewerIn(iss, S, i) == Cardinality({j \in S : iss[j].createdAt > iss[i].createdAt})

\* list is the block of the issues with ids in S, newest first, that starts
\* after the first skip of them and holds at most limit of them.
IsBlock(list, iss, S, skip, limit) ==
    /\ Len(list) = Cardinality({i \in S : /\ NewerIn(iss, S, i) >= skip
                                          /\ NewerIn(iss, S, i) < skip + limit})
    /\ \A k \in DOMAIN list : list[k] \in S /\ NewerIn(iss, S, list[k]) = skip + k - 1

\* s occurs in text, letter case aside.
IsSubstringNoCase(text, s) ==
    \E off \in 0..Len(text) :
        /\ off + Len(s) <= Len(text)
        /\ \A k \in DOMAIN s : Lower(s[k]) = Lower(text[off + k])

\* The number a value stands for when it is a numeral, dflt when it is absent
\* or not a numeral.
NumeralOr(s, dflt) ==
    IF s # << >> /\ \A k \in DOMAIN s : s[k] \in DOMAIN DigitValue
    THEN DigitsValue(s) ELSE dflt

SubstringSelection(iss, q) ==
    {i \in DOMAIN iss :
        /\ q.category # << >> => iss[i].category = q.category
        /\ q.status # "" => iss[i].status = q.status
        /\ q.priority # "" => iss[i].priority = q.priority
        /\ q.search # << >> =>
              \/ IsSubstringNoCase(iss[i].title, q.search)
              \/ IsSubstringNoCase(iss[i].location, q.search)
              \/ IsSubstringNoCase(iss[i].category, q.search)}

PatternSelection(iss, q) ==
    {i \in DOMAIN iss :
        /\ q.category # << >> => iss[i].category = q.category
        /\ q.status # "" => iss[i].status = q.status
        /\ q.priority # "" => iss[i].priority = q.priority
        /\ q.search # << >> =>
              \/ RegexFinds(iss[i].title, q.search)
              \/ RegexFinds(iss[i].location, q.search)
              \/ RegexFinds(iss[i].category, q.search)}

====
